---------------------------- MODULE Spec2Model ----------------------------
(***************************************************************************)
(* The gallery controller of src/src/gallery.rs as a state machine: the    *)
(* image list, the preview cache, the viewer, the decode tasks in flight   *)
(* and the messages Gallery::update handles.                               *)
(*                                                                         *)
(* Time.  An iced Animation<bool> records the Instant of its last          *)
(* transition (go_mut reads the wall clock) and is queried with the        *)
(* Instant the gallery stored from the last Animate message (self.now).    *)
(* Both are kept here relative to the transition: `wall` is the time       *)
(* elapsed on the wall clock since the transition, `seen` the time elapsed *)
(* at self.now (0 while self.now is not past the transition), both in      *)
(* ticks and both saturating at the animation's duration, after which the  *)
(* animation is complete and the exact elapsed time no longer matters.     *)
(* A pixel buffer is identified by the image it was decoded from and its   *)
(* width and height.                                                       *)
(***************************************************************************)
EXTENDS Integers, Sequences, FiniteSets

\* ------------------------------------------------------------------ bounds
\* Most images a directory listing yields.
MaxImages == 2
\* Most decode tasks in flight at once.
MaxInFlight == 2
\* Clock ticks a "quick" animation lasts (the time resolution of the model).
QuickTicks == 1
\* Most entries the image directory holds.
MaxEntries == 3

\* ------------------------------------------------------------------ values
None == -1
\* Ids a message can carry: every listed id and one that is never listed.
Ids == 0 .. MaxImages
Keys == {"ArrowLeft", "ArrowRight", "Escape", "Other"}
\* Interpolated values, as far as the code distinguishes them: the `false`
\* endpoint, strictly between the endpoints, the `true` endpoint.
Zero == 0
Mid == 1
One == 2

VARIABLES
    images,          \* Gallery.images: the ids of the listed images, in order
    previews,        \* Gallery.previews: id -> preview (state "Absent": no entry)
    viewer,          \* Gallery.viewer
    listTask,        \* the listing task of Gallery::new is still in flight
    thumbTasks,      \* thumbnail decodes in flight: id -> how many
    origTasks,       \* original-resolution decodes in flight: id -> how many
    thumbRequested,  \* history: ids a thumbnail decode was ever requested for
    thumbFailed,     \* history: ids a thumbnail decode has failed for
    origFailed,      \* history: an original-resolution decode has failed
    reopened,        \* history: the id of an Open handled right after a Close,
                     \*   until a decode of that id is delivered or the target moves
    last,            \* history: the message handled last and what it issued
    panicked         \* update panicked (unwrap of None, index out of bounds)

vars == <<images, previews, viewer, listTask, thumbTasks, origTasks,
          thumbRequested, thumbFailed, origFailed, reopened, last, panicked>>

\* --------------------------------------------------------------- animation
LevelOf(value) == IF value THEN One ELSE Zero

\* Animation::new(initial): no transition recorded, nothing in progress.
AnimationNew(initial) ==
    [value |-> initial, origin |-> LevelOf(initial),
     wall |-> QuickTicks, seen |-> QuickTicks]

\* The interpolated level `elapsed` ticks after the last transition.
LevelAt(a, elapsed) ==
    IF elapsed >= QuickTicks THEN LevelOf(a.value)
    ELSE IF elapsed = 0 \/ a.origin = LevelOf(a.value) THEN a.origin
    ELSE Mid

\* Animation::interpolate(_, _, self.now)
Interpolate(a) == LevelAt(a, a.seen)

\* Animation::is_animating(self.now)
IsAnimating(a) == a.seen < QuickTicks

\* Animation::go_mut(target), Animation::go(target): a transition at the wall
\* clock's Instant::now(), only when the target changes; an interrupted
\* animation continues from the level it had reached.
Go(a, target) ==
    IF a.value = target THEN a
    ELSE [value |-> target, origin |-> LevelAt(a, a.wall), wall |-> 0, seen |-> 0]

\* The wall clock advances by one tick.
Elapse(a) == [a EXCEPT !.wall = IF @ < QuickTicks THEN @ + 1 ELSE @]

\* A variant in which the animation is still read at the old timestamp.
ObserveStale(a) == a

\* self.now becomes the wall clock's time.
Observe(a) == [a EXCEPT !.seen = a.wall]

\* ------------------------------------------------------------ image source
\* What read_dir yields for one entry of the image directory: an error, or a
\* path, of which the model keeps the extension (NoExtension: it has none).
EntryError == "Err"
NoExtension == ""
Extensions == {"jpg", "JPG", "jpeg", "Png", "gif", "txt", NoExtension}

\* The contents the image directory can have: read_dir's entries, in its order.
Directories ==
    UNION {[1 .. n -> Extensions \cup {EntryError}] : n \in 0 .. MaxEntries}

\* str::to_lowercase, on the extensions above
ToLowercase(ext) ==
    CASE ext = "JPG" -> "jpg"
      [] ext = "Png" -> "png"
      [] OTHER -> ext

\* A variant of the filter that compares the extension as it is spelled.
ExtensionAcceptedCaseSensitive(ext) ==
    /\ ext # NoExtension
    /\ ext \in {"jpg", "jpeg", "png", "gif"}

\* path.extension().map_or(false, |ext| [..].contains(&ext..to_lowercase()))
ExtensionAccepted(ext) ==
    /\ ext # NoExtension
    /\ ToLowercase(ext) \in {"jpg", "jpeg", "png", "gif"}

\* entry.path() of the i-th entry: which entry it is, and its extension.
Path(entries, i) == [entry |-> i, extension |-> entries[i]]

\* helper::list_image_files: the paths of the entries that are read without
\* error and pass the extension filter, in read_dir's order.
RECURSIVE ListImageFilesFrom(_, _, _)
ListImageFilesFrom(entries, i, paths) ==
    IF i > Len(entries) THEN paths
    ELSE IF entries[i] # EntryError /\ ExtensionAccepted(entries[i])
    THEN ListImageFilesFrom(entries, i + 1, Append(paths, Path(entries, i)))
    ELSE ListImageFilesFrom(entries, i + 1, paths)

ListImageFiles(entries) == ListImageFilesFrom(entries, 1, <<>>)

\* Image::list_from_paths: one image per path, in order, with ids counted from 0.
ListFromPaths(paths) ==
    [k \in 1 .. Len(paths) |-> [id |-> k - 1, path |-> paths[k]]]

\* Image::list: the loop over read_dir's entries, with its id counter.
RECURSIVE ImageListFrom(_, _, _, _)
ImageListFrom(entries, i, list, id) ==
    IF i > Len(entries) THEN list
    ELSE IF entries[i] # EntryError /\ ExtensionAccepted(entries[i])
    THEN ImageListFrom(entries, i + 1,
                       Append(list, [id |-> id, path |-> Path(entries, i)]),
                       id + 1)
    ELSE ImageListFrom(entries, i + 1, list, id)

ImageList(entries) == ImageListFrom(entries, 1, <<>>, 0)

\* The ids of a list of images, in order (all the model keeps of an Image).
ImageIds(list) == [k \in 1 .. Len(list) |-> list[k].id]

\* Size::Original, Size::Thumbnail { width, height }
Original == [kind |-> "Original"]
Thumbnail(width, height) == [kind |-> "Thumbnail", width |-> width, height |-> height]

\* The dimensions of the image file with this id, as image::open reads them:
\* the first image is smaller than a preview, the others are larger.
SourceWidth(id) == 300 * (id + 1)
SourceHeight(id) == 200 * (id + 1)

\* Image::download(size): the file's pixels as RGBA, in the file's dimensions;
\* `size` is not used.
Download(id, size) ==
    [of |-> id, width |-> SourceWidth(id), height |-> SourceHeight(id)]

\* image::Handle::from_rgba(rgba.width, rgba.height, rgba.pixels)
HandleFromRgba(rgba) ==
    [of |-> rgba.of, width |-> rgba.width, height |-> rgba.height]

\* images.iter().find(|candidate| candidate.id == id)
Listed(id) == \E k \in 1 .. Len(images) : images[k] = id

\* images.iter().position(|img| img.id == id), 0-based
Position(id) ==
    IF Listed(id)
    THEN (CHOOSE k \in 1 .. Len(images) :
              images[k] = id /\ \A j \in 1 .. k - 1 : images[j] # id) - 1
    ELSE None

\* ----------------------------------------------------------------- preview
PreviewWIDTH == 360
PreviewHEIGHT == 360

Absent == [state |-> "Absent"]
Loading == [state |-> "Loading"]

\* A variant of Thumbnail::new that builds the fade-in without starting it.
ThumbnailNewNotStarted(rgba) ==
    [handle |-> HandleFromRgba(rgba),
     fade_in |-> AnimationNew(FALSE),
     zoom |-> AnimationNew(FALSE)]

ThumbnailNew(rgba) ==
    [handle |-> HandleFromRgba(rgba),
     fade_in |-> Go(AnimationNew(FALSE), TRUE),
     zoom |-> AnimationNew(FALSE)]

PreviewReady(rgba) == [state |-> "Ready", thumbnail |-> ThumbnailNew(rgba)]

PreviewLoad(preview, rgba) == [state |-> "Ready", thumbnail |-> ThumbnailNew(rgba)]

\* A variant of toggle_zoom that drives the wrong animation track.
PreviewToggleZoomWrongTrack(preview, enabled) ==
    IF preview.state = "Ready"
    THEN [preview EXCEPT !.thumbnail.fade_in = Go(@, enabled)]
    ELSE preview

PreviewToggleZoom(preview, enabled) ==
    IF preview.state = "Ready"
    THEN [preview EXCEPT !.thumbnail.zoom = Go(@, enabled)]
    ELSE preview

PreviewIsAnimating(preview) ==
    IF preview.state = "Ready"
    THEN IsAnimating(preview.thumbnail.fade_in) \/ IsAnimating(preview.thumbnail.zoom)
    ELSE FALSE

\* ------------------------------------------------------------------ viewer
ViewerNew ==
    [image |-> None,
     background_fade_in |-> AnimationNew(FALSE),
     image_fade_in |-> AnimationNew(FALSE),
     current_id |-> None,
     current_index |-> 0]

ViewerIsOpen(v) == Interpolate(v.background_fade_in) > Zero

\* A variant of Viewer::open that keeps the image it holds.
ViewerOpenKeepsImage(v) ==
    [v EXCEPT !.background_fade_in = Go(@, TRUE)]

ViewerOpen(v) ==
    [v EXCEPT !.image = None,
              !.background_fade_in = Go(@, TRUE)]

\* Of the handle it holds the viewer model keeps the image it was made from.
ViewerShow(v, rgba) ==
    [v EXCEPT !.image = HandleFromRgba(rgba).of,
              !.background_fade_in = Go(@, TRUE),
              !.image_fade_in = Go(@, TRUE)]

\* A variant of Viewer::close that also clears the current index.
ViewerCloseClearsIndex(v) ==
    [v EXCEPT !.background_fade_in = Go(@, FALSE),
              !.image_fade_in = Go(@, FALSE),
              !.current_id = None,
              !.current_index = None]

\* A variant of Viewer::close that reverses the background fade only.
ViewerCloseKeepsImageFade(v) ==
    [v EXCEPT !.background_fade_in = Go(@, FALSE),
              !.current_id = None]

ViewerClose(v) ==
    [v EXCEPT !.background_fade_in = Go(@, FALSE),
              !.image_fade_in = Go(@, FALSE),
              !.current_id = None]

\* A variant of Viewer::is_animating that looks at the background fade only.
ViewerIsAnimatingBackgroundOnly(v) == IsAnimating(v.background_fade_in)

ViewerIsAnimating(v) ==
    IsAnimating(v.background_fade_in) \/ IsAnimating(v.image_fade_in)

\* ------------------------------------------------------------------- tasks
Sum(f) == LET S[D \in SUBSET Ids] ==
                  IF D = {} THEN 0
                  ELSE LET d == CHOOSE x \in D : TRUE IN f[d] + S[D \ {d}]
          IN S[Ids]

InFlight == Sum(thumbTasks) + Sum(origTasks)

\* What the handler of a message leaves in `last`: the message (its type, the
\* id it carries, its Ok/Err or hover flag) and the kind of decode request it
\* issued ("None", "Thumbnail" or "Original").
Handled(type, id, flag, issued) ==
    [type |-> type, id |-> id, flag |-> flag, issued |-> issued]


\* ----------------------------------------------------------------- update
\* The result of Gallery::update on one message: the controller's fields after
\* it, the decode request of the Task it returns, and whether it panicked.
NoRequest == [kind |-> "None", id |-> None]
Request(kind, id) == [kind |-> kind, id |-> id]

Result(imgs, prevs, v, req) ==
    [images |-> imgs, previews |-> prevs, viewer |-> v, req |-> req, panic |-> FALSE]

Unchanged == Result(images, previews, viewer, NoRequest)

Panic == [Unchanged EXCEPT !.panic = TRUE]

\* Message::ImagesListed(Ok(images))
UpdateImagesListed(listed) == Result(listed, previews, viewer, NoRequest)

\* Message::ImagePoppedIn(id)
UpdateImagePoppedIn(id) ==
    IF ~Listed(id) THEN Unchanged
    ELSE Result(images, previews, viewer, Request("Thumbnail", id))

\* Message::ImageDownloaded(Ok(rgba))
UpdateImageDownloaded(rgba) ==
    Result(images, previews, ViewerShow(viewer, rgba), NoRequest)

\* A variant of the ThumbnailDownloaded arm that removes an existing entry and
\* inserts the thumbnail only where there was none.
UpdateThumbnailDownloadedDropsEntry(id, rgba) ==
    IF previews[id].state # "Absent"
    THEN Result(images, [previews EXCEPT ![id] = Absent], viewer, NoRequest)
    ELSE Result(images, [previews EXCEPT ![id] = PreviewReady(rgba)],
                viewer, NoRequest)

\* Message::ThumbnailDownloaded(id, Ok(rgba))
UpdateThumbnailDownloaded(id, rgba) ==
    LET thumbnail == IF previews[id].state # "Absent"
                     THEN PreviewLoad(previews[id], rgba)
                     ELSE PreviewReady(rgba)
    IN  Result(images, [previews EXCEPT ![id] = thumbnail], viewer, NoRequest)

\* Message::ThumbnailHovered(id, is_hovered)
UpdateThumbnailHovered(id, is_hovered) ==
    IF previews[id].state # "Absent"
    THEN Result(images,
                [previews EXCEPT ![id] = PreviewToggleZoom(@, is_hovered)],
                viewer, NoRequest)
    ELSE Unchanged

\* Message::Open(id)
UpdateOpen(id) ==
    IF ~Listed(id) THEN Unchanged
    ELSE Result(images, previews,
                [ViewerOpen(viewer) EXCEPT !.current_id = id,
                                           !.current_index = Position(id)],
                Request("Original", id))

\* Message::Close
UpdateClose == Result(images, previews, ViewerClose(viewer), NoRequest)

\* A variant of the ArrowLeft arm that also calls Viewer::open, as Open does.
UpdateArrowLeftReopens ==
    LET current_index == viewer.current_index IN
    IF current_index = None THEN Panic
    ELSE IF current_index > 0
    THEN IF current_index - 1 >= Len(images) THEN Panic
         ELSE LET prev_image == images[current_index]
              IN  Result(images, previews,
                         [ViewerOpen(viewer) EXCEPT
                              !.current_index = current_index - 1,
                              !.current_id = prev_image],
                         Request("Original", prev_image))
    ELSE Unchanged

\* Key::Named(Named::ArrowLeft), the viewer being open
UpdateArrowLeft ==
    LET current_index == viewer.current_index IN
    IF current_index = None THEN Panic
    ELSE IF current_index > 0
    THEN IF current_index - 1 >= Len(images) THEN Panic
         ELSE LET prev_image == images[current_index]
              IN  Result(images, previews,
                         [viewer EXCEPT !.current_index = current_index - 1,
                                        !.current_id = prev_image],
                         Request("Original", prev_image))
    ELSE Unchanged

\* A variant of the ArrowRight arm that moves the index and requests the
\* decode but leaves current_id as it was.
UpdateArrowRightKeepsTarget ==
    LET current_index == viewer.current_index IN
    IF current_index = None \/ Len(images) = 0 THEN Panic
    ELSE IF current_index < Len(images) - 1
    THEN LET next_image == images[current_index + 2]
         IN  Result(images, previews,
                    [viewer EXCEPT !.current_index = current_index + 1],
                    Request("Original", next_image))
    ELSE Unchanged

\* Key::Named(Named::ArrowRight), the viewer being open
UpdateArrowRight ==
    LET current_index == viewer.current_index IN
    IF current_index = None \/ Len(images) = 0 THEN Panic
    ELSE IF current_index < Len(images) - 1
    THEN LET next_image == images[current_index + 2]
         IN  Result(images, previews,
                    [viewer EXCEPT !.current_index = current_index + 1,
                                   !.current_id = next_image],
                    Request("Original", next_image))
    ELSE Unchanged

\* A variant of the KeyPressed arm without the is_open test.
UpdateKeyPressedWhileClosed(key) ==
    CASE key = "ArrowLeft" -> UpdateArrowLeft
      [] key = "ArrowRight" -> UpdateArrowRight
      [] key = "Escape" -> Result(images, previews, ViewerClose(viewer), NoRequest)
      [] OTHER -> Unchanged

\* Message::KeyPressed(Event::KeyPressed { key, .. })
UpdateKeyPressed(key) ==
    IF ViewerIsOpen(viewer)
    THEN CASE key = "ArrowLeft" -> UpdateArrowLeft
           [] key = "ArrowRight" -> UpdateArrowRight
           [] key = "Escape" -> Result(images, previews, ViewerClose(viewer), NoRequest)
           [] OTHER -> Unchanged
    ELSE Unchanged

\* A variant of the error arm that unwraps the result.
UpdateErrorUnwraps == Panic

\* Message::ImagesListed(Err(_)) | ImageDownloaded(Err(_)) | ThumbnailDownloaded(_, Err(_))
UpdateError == Unchanged

\* One call of Gallery::update: the fields it leaves, the task it spawns.
Step(type, id, flag, r) ==
    /\ ~panicked
    /\ r.req.kind = "None" \/ InFlight < MaxInFlight
    /\ images' = r.images
    /\ previews' = r.previews
    /\ viewer' = r.viewer
    /\ panicked' = r.panic
    /\ thumbRequested' = IF r.req.kind = "Thumbnail"
                         THEN thumbRequested \cup {r.req.id} ELSE thumbRequested
    /\ thumbFailed' = IF type = "ThumbnailDownloaded" /\ ~flag
                      THEN thumbFailed \cup {id} ELSE thumbFailed
    /\ origFailed' = (origFailed \/ (type = "ImageDownloaded" /\ ~flag))
    /\ reopened' = IF type = "Open" /\ r.req.kind = "Original"
                   THEN (IF last.type = "Close" THEN id ELSE None)
                   ELSE IF type = "ImageDownloaded" /\ id = reopened THEN None
                   ELSE IF r.req.kind = "Original" THEN None
                   ELSE reopened
    /\ last' = Handled(type, id, flag, r.req.kind)

\* The Task the call returned joins the tasks in flight.
Spawn(r) ==
    /\ thumbTasks' = IF r.req.kind = "Thumbnail"
                     THEN [thumbTasks EXCEPT ![r.req.id] = @ + 1] ELSE thumbTasks
    /\ origTasks' = IF r.req.kind = "Original"
                    THEN [origTasks EXCEPT ![r.req.id] = @ + 1] ELSE origTasks

\* ----------------------------------------------------------------- actions
\* Gallery::new has read the directory and found `entries`; the listing task
\* delivers the images made of the accepted paths.
ImagesListedOk(entries) ==
    /\ listTask
    /\ Len(ListImageFiles(entries)) <= MaxImages
    /\ listTask' = FALSE
    /\ Step("ImagesListed", None, TRUE,
            UpdateImagesListed(ImageIds(ListFromPaths(ListImageFiles(entries)))))
    /\ UNCHANGED <<thumbTasks, origTasks>>

ImagesListedErr ==
    /\ listTask
    /\ listTask' = FALSE
    /\ Step("ImagesListed", None, FALSE, UpdateError)
    /\ UNCHANGED <<thumbTasks, origTasks>>

ImagePoppedIn(id) ==
    /\ Step("ImagePoppedIn", id, TRUE, UpdateImagePoppedIn(id))
    /\ Spawn(UpdateImagePoppedIn(id))
    /\ UNCHANGED listTask

ImageDownloadedOk(id) ==
    /\ origTasks[id] > 0
    /\ origTasks' = [origTasks EXCEPT ![id] = @ - 1]
    /\ Step("ImageDownloaded", id, TRUE,
            UpdateImageDownloaded(Download(id, Original)))
    /\ UNCHANGED <<listTask, thumbTasks>>

ImageDownloadedErr(id) ==
    /\ origTasks[id] > 0
    /\ origTasks' = [origTasks EXCEPT ![id] = @ - 1]
    /\ Step("ImageDownloaded", id, FALSE, UpdateError)
    /\ UNCHANGED <<listTask, thumbTasks>>

ThumbnailDownloadedOk(id) ==
    /\ thumbTasks[id] > 0
    /\ thumbTasks' = [thumbTasks EXCEPT ![id] = @ - 1]
    /\ Step("ThumbnailDownloaded", id, TRUE,
            UpdateThumbnailDownloaded(
                id, Download(id, Thumbnail(PreviewWIDTH, PreviewHEIGHT))))
    /\ UNCHANGED <<listTask, origTasks>>

ThumbnailDownloadedErr(id) ==
    /\ thumbTasks[id] > 0
    /\ thumbTasks' = [thumbTasks EXCEPT ![id] = @ - 1]
    /\ Step("ThumbnailDownloaded", id, FALSE, UpdateError)
    /\ UNCHANGED <<listTask, origTasks>>

ThumbnailHovered(id, is_hovered) ==
    /\ Step("ThumbnailHovered", id, is_hovered, UpdateThumbnailHovered(id, is_hovered))
    /\ UNCHANGED <<listTask, thumbTasks, origTasks>>

Open(id) ==
    /\ Step("Open", id, TRUE, UpdateOpen(id))
    /\ Spawn(UpdateOpen(id))
    /\ UNCHANGED listTask

Close ==
    /\ Step("Close", None, TRUE, UpdateClose)
    /\ UNCHANGED <<listTask, thumbTasks, origTasks>>

\* Message::Animate(now): self.now = now, the time every animation is read at.
Animate ==
    /\ Step("Animate", None, TRUE,
            Result(images,
                   [id \in Ids |->
                       IF previews[id].state = "Ready"
                       THEN [previews[id] EXCEPT !.thumbnail.fade_in = Observe(@),
                                                 !.thumbnail.zoom = Observe(@)]
                       ELSE previews[id]],
                   [viewer EXCEPT !.background_fade_in = Observe(@),
                                  !.image_fade_in = Observe(@)],
                   NoRequest))
    /\ UNCHANGED <<listTask, thumbTasks, origTasks>>

ViewportChanged ==
    /\ Step("ViewportChanged", None, TRUE, Unchanged)
    /\ UNCHANGED <<listTask, thumbTasks, origTasks>>

KeyPressed(key) ==
    /\ Step(key, None, TRUE, UpdateKeyPressed(key))
    /\ Spawn(UpdateKeyPressed(key))
    /\ UNCHANGED listTask

\* Message::KeyPressed(event) for an event other than Event::KeyPressed
KeyOther ==
    /\ Step("KeyReleased", None, TRUE, Unchanged)
    /\ UNCHANGED <<listTask, thumbTasks, origTasks>>

\* The wall clock advances: no message, the controller is not involved.
Tick ==
    /\ ~panicked
    /\ previews' = [id \in Ids |->
                       IF previews[id].state = "Ready"
                       THEN [previews[id] EXCEPT !.thumbnail.fade_in = Elapse(@),
                                                 !.thumbnail.zoom = Elapse(@)]
                       ELSE previews[id]]
    /\ viewer' = [viewer EXCEPT !.background_fade_in = Elapse(@),
                                !.image_fade_in = Elapse(@)]
    /\ UNCHANGED <<images, listTask, thumbTasks, origTasks, thumbRequested,
                   thumbFailed, origFailed, reopened, last, panicked>>

\* Gallery::new: nothing listed, no preview, the viewer closed, the listing task
\* spawned.
Init ==
    /\ images = <<>>
    /\ previews = [id \in Ids |-> Absent]
    /\ viewer = ViewerNew
    /\ listTask = TRUE
    /\ thumbTasks = [id \in Ids |-> 0]
    /\ origTasks = [id \in Ids |-> 0]
    /\ thumbRequested = {}
    /\ thumbFailed = {}
    /\ origFailed = FALSE
    /\ reopened = None
    /\ last = Handled("New", None, TRUE, "None")
    /\ panicked = FALSE

Next ==
    \/ listTask /\ \E entries \in Directories : ImagesListedOk(entries)
    \/ ImagesListedErr
    \/ \E id \in Ids : ImagePoppedIn(id)
    \/ \E id \in Ids : ImageDownloadedOk(id)
    \/ \E id \in Ids : ImageDownloadedErr(id)
    \/ \E id \in Ids : ThumbnailDownloadedOk(id)
    \/ \E id \in Ids : ThumbnailDownloadedErr(id)
    \/ \E id \in Ids, is_hovered \in BOOLEAN : ThumbnailHovered(id, is_hovered)
    \/ \E id \in Ids : Open(id)
    \/ Close
    \/ Animate
    \/ ViewportChanged
    \/ \E key \in Keys : KeyPressed(key)
    \/ KeyOther
    \/ Tick

Spec == Init /\ [][Next]_vars

\* The controller with the viewer's messages only: no card becomes visible or
\* is hovered, so the preview cache stays empty.
NextViewer ==
    \/ listTask /\ \E entries \in Directories : ImagesListedOk(entries)
    \/ ImagesListedErr
    \/ \E id \in Ids : ImageDownloadedOk(id)
    \/ \E id \in Ids : ImageDownloadedErr(id)
    \/ \E id \in Ids : Open(id)
    \/ Close
    \/ Animate
    \/ ViewportChanged
    \/ \E key \in Keys : KeyPressed(key)
    \/ KeyOther
    \/ Tick

SpecViewer == Init /\ [][NextViewer]_vars

\* The controller with the preview cache's messages only: no image is opened
\* and no key is pressed, so the viewer stays closed.
NextPreviews ==
    \/ listTask /\ \E entries \in Directories : ImagesListedOk(entries)
    \/ ImagesListedErr
    \/ \E id \in Ids : ImagePoppedIn(id)
    \/ \E id \in Ids : ThumbnailDownloadedOk(id)
    \/ \E id \in Ids : ThumbnailDownloadedErr(id)
    \/ \E id \in Ids, is_hovered \in BOOLEAN : ThumbnailHovered(id, is_hovered)
    \/ Animate
    \/ ViewportChanged
    \/ Tick

SpecPreviews == Init /\ [][NextPreviews]_vars

\* The messages that issue decode requests and those that complete them,
\* successfully or not, with the clock standing still.
NextLoading ==
    \/ listTask /\ \E entries \in Directories : ImagesListedOk(entries)
    \/ ImagesListedErr
    \/ \E id \in Ids : ImagePoppedIn(id)
    \/ \E id \in Ids : ThumbnailDownloadedOk(id)
    \/ \E id \in Ids : ThumbnailDownloadedErr(id)
    \/ \E id \in Ids : ImageDownloadedOk(id)
    \/ \E id \in Ids : ImageDownloadedErr(id)
    \/ \E id \in Ids : Open(id)
    \/ Close

SpecLoading == Init /\ [][NextLoading]_vars

\* A variant of card that gives every card an on_press that opens its image.
CardAlwaysOpens(id, preview) ==
    IF preview.state # "Absent"
    THEN [widget |-> "button", on_press |-> id, on_show |-> None]
    ELSE [widget |-> "pop", on_press |-> id, on_show |-> id]

\* card(image, preview, now): the widget wrapping the card of image `id`
\* whose cache entry is `preview`, and the message it emits when pressed
\* (on_press) and when it comes into view (on_show); None: it emits nothing.
Card(id, preview) ==
    IF preview.state # "Absent"
    THEN [widget |-> "button",
          on_press |-> IF preview.state = "Ready" THEN id ELSE None,
          on_show |-> None]
    ELSE [widget |-> "pop", on_press |-> None, on_show |-> id]

\* Gallery::view: one card per listed image.
Cards == {images[k] : k \in 1 .. Len(images)}

\* The button of a card is pressed: the runtime delivers its Message::Open.
CardPressed(id) ==
    /\ id \in Cards
    /\ Card(id, previews[id]).on_press # None
    /\ Open(Card(id, previews[id]).on_press)

\* The pop widget of a card comes into view: the runtime delivers its
\* Message::ImagePoppedIn.
CardShown(id) ==
    /\ id \in Cards
    /\ Card(id, previews[id]).on_show # None
    /\ ImagePoppedIn(Card(id, previews[id]).on_show)

\* The controller driven by the cards of its view: Open and ImagePoppedIn are
\* those the cards emit; no card is hovered and no key is pressed.
NextCards ==
    \/ listTask /\ \E entries \in Directories : ImagesListedOk(entries)
    \/ \E id \in Ids : CardShown(id)
    \/ \E id \in Ids : ThumbnailDownloadedOk(id)
    \/ \E id \in Ids : ThumbnailDownloadedErr(id)
    \/ \E id \in Ids : CardPressed(id)
    \/ \E id \in Ids : ImageDownloadedOk(id)
    \/ Close
    \/ Animate
    \/ Tick

SpecCards == Init /\ [][NextCards]_vars

\* Gallery::subscription: is_animating, which decides whether window::frames()
\* is subscribed to.
SubscriptionIsAnimating ==
    \/ \E id \in Ids : PreviewIsAnimating(previews[id])
    \/ ViewerIsAnimating(viewer)

\* Gallery::subscription: the subscriptions it returns.
Subscription ==
    IF SubscriptionIsAnimating THEN {"frames", "keyboard"} ELSE {"keyboard"}

\* A frame of window::frames(), delivered as Message::Animate while the
\* subscription is active.
Frame == SubscriptionIsAnimating /\ Animate

\* The messages that start an animation of a thumbnail's fade-in or of the
\* viewer's tracks, and the clock: no decode fails, no card is hovered and no
\* key is pressed.
NextAnimation ==
    \/ listTask /\ \E entries \in Directories : ImagesListedOk(entries)
    \/ \E id \in Ids : ImagePoppedIn(id)
    \/ \E id \in Ids : ThumbnailDownloadedOk(id)
    \/ \E id \in Ids : ImageDownloadedOk(id)
    \/ \E id \in Ids : Open(id)
    \/ Close
    \/ Animate
    \/ Tick

\* ... under the scheduling the runtime provides: the wall clock keeps
\* advancing, and while the frame subscription is active its frames keep being
\* delivered.
FairAnimation ==
    Init /\ [][NextAnimation]_vars /\ WF_vars(Tick) /\ WF_vars(Frame)


\* ================================================================== claims
\* What Gallery::update can change, and the tasks it can spawn.
ControllerUnchanged ==
    UNCHANGED <<images, previews, viewer, thumbTasks, origTasks, panicked>>

\* Exactly one original-resolution decode request is issued, for image `id`.
IssuesOriginal(id) ==
    /\ origTasks' = [origTasks EXCEPT ![id] = @ + 1]
    /\ thumbTasks' = thumbTasks

\* C1: a successful full-resolution completion handled for an image other than
\* the viewer's current target leaves the displayed image as it was.
C1_StaleCompletionDiscarded ==
    [][\A id \in Ids :
          (ImageDownloadedOk(id) /\ id # viewer.current_id)
              => viewer'.image = viewer.image]_vars

\* C2: once every full-resolution decode in flight has been delivered, all of
\* them successfully, the viewer displays the image decoded for its current
\* target (after Open(A) and a navigation to B: B's, in either delivery order).
C2_ConvergesToTarget ==
    (Sum(origTasks) = 0 /\ ~origFailed /\ viewer.current_id # None)
        => viewer.image = viewer.current_id

\* C3: a visibility event for an id a thumbnail was already requested for issues
\* no request and changes nothing, so no id is ever requested twice.
C3_VisibilityIdempotent ==
    [][\A id \in Ids :
          /\ (ImagePoppedIn(id) /\ id \in thumbRequested) => ControllerUnchanged
          /\ thumbTasks'[id] > thumbTasks[id] => id \notin thumbRequested]_vars

\* C4: the preview cache holds an entry for an id exactly when a thumbnail
\* decode for it has been requested (or has completed).
C4_EntryIffRequested ==
    \A id \in Ids : (previews[id].state # "Absent") <=> (id \in thumbRequested)

\* C5: with the viewer open at index i of N images, ArrowLeft is a no-op iff
\* i = 0 and ArrowRight is a no-op iff i = N-1; otherwise the index moves by
\* one, the target becomes the id at the new index and exactly one
\* original-resolution decode of that image is requested.
C5_NavigationBounds ==
    [][ViewerIsOpen(viewer) =>
          LET i == viewer.current_index
              N == Len(images)
              Moved(j) == /\ j \in 0 .. N - 1
                          /\ viewer'.current_index = j
                          /\ viewer'.current_id = images[j + 1]
                          /\ IssuesOriginal(images[j + 1])
                          /\ ~panicked'
          IN  /\ KeyPressed("ArrowLeft") =>
                    IF i = 0 THEN ControllerUnchanged ELSE Moved(i - 1)
              /\ KeyPressed("ArrowRight") =>
                    IF i = N - 1 THEN ControllerUnchanged ELSE Moved(i + 1)]_vars

\* C5's case: ArrowRight moved the open viewer to the last image.
C5_Witness ==
    /\ last.type = "ArrowRight"
    /\ last.issued = "Original"
    /\ ViewerIsOpen(viewer)
    /\ viewer.current_index = Len(images) - 1
    /\ viewer.current_id = images[Len(images)]
    /\ origTasks[viewer.current_id] > 0

\* C6: whenever the viewer's current index is set, it is a position of the
\* image list and the image there has the id of the current target.
C6_IndexMatchesTarget ==
    viewer.current_index # None =>
        /\ viewer.current_index < Len(images)
        /\ images[viewer.current_index + 1] = viewer.current_id

\* C7: from an Open handled right after a Close until a decode of the opened
\* image is delivered, the viewer displays no image.
C7_ReopenShowsNoImage ==
    reopened # None => viewer.image = None

\* C8: once a thumbnail decode for an id has failed, the id's entry is Loading
\* in every later state and no thumbnail decode is requested for it again.
C8_FailedStaysLoading ==
    /\ [](\A id \in thumbFailed : previews[id].state = "Loading")
    /\ [][\A id \in thumbFailed : thumbTasks'[id] <= thumbTasks[id]]_vars

\* C9: right after the full-resolution decode for the viewer's current target
\* has failed, the viewer is open and displays no image.
C9_FailedDecodeBlank ==
    (last.type = "ImageDownloaded" /\ ~last.flag /\ last.id = viewer.current_id)
        => (viewer.background_fade_in.value /\ viewer.image = None)

\* C10: a hover event for an id whose entry is not Ready changes nothing; for
\* a Ready entry it sets that entry's zoom target to the hover flag and leaves
\* the rest of the entry, every other entry and the viewer as they were.
C10_HoverOnlyZooms ==
    [][\A id \in Ids, is_hovered \in BOOLEAN :
          ThumbnailHovered(id, is_hovered) =>
              IF previews[id].state = "Ready"
              THEN /\ previews'[id].state = "Ready"
                   /\ previews'[id].thumbnail.zoom.value = is_hovered
                   /\ previews'[id].thumbnail.handle = previews[id].thumbnail.handle
                   /\ previews'[id].thumbnail.fade_in = previews[id].thumbnail.fade_in
                   /\ \A other \in Ids \ {id} : previews'[other] = previews[other]
                   /\ UNCHANGED <<images, viewer, thumbTasks, origTasks, panicked>>
              ELSE ControllerUnchanged]_vars

\* C10's case: a Ready entry was hovered and zooms in while another Ready
\* entry keeps its zoom target.
C10_Witness ==
    /\ last.type = "ThumbnailHovered"
    /\ last.flag
    /\ previews[last.id].state = "Ready"
    /\ previews[last.id].thumbnail.zoom.value
    /\ \E other \in Ids \ {last.id} :
          /\ previews[other].state = "Ready"
          /\ ~previews[other].thumbnail.zoom.value

\* C11: handling a successful thumbnail completion for id leaves id's entry
\* Ready, its fade-in started at construction toward shown and its zoom target
\* unset, whatever the entry was before; every other entry and the viewer are
\* as they were.
C11_ThumbnailInstalled ==
    [][\A id \in Ids :
          ThumbnailDownloadedOk(id) =>
              /\ previews'[id].state = "Ready"
              /\ previews'[id].thumbnail.fade_in.value
              /\ previews'[id].thumbnail.fade_in.wall = 0
              /\ IsAnimating(previews'[id].thumbnail.fade_in)
              /\ ~previews'[id].thumbnail.zoom.value
              /\ ~IsAnimating(previews'[id].thumbnail.zoom)
              /\ \A other \in Ids \ {id} : previews'[other] = previews[other]
              /\ viewer' = viewer]_vars

\* C11's case: a completion has just installed a fresh thumbnail while another
\* Ready entry keeps its zoom.
C11_Witness ==
    /\ last.type = "ThumbnailDownloaded"
    /\ last.flag
    /\ previews[last.id].state = "Ready"
    /\ previews[last.id].thumbnail.fade_in.wall = 0
    /\ ~previews[last.id].thumbnail.zoom.value
    /\ \E other \in Ids \ {last.id} :
          /\ previews[other].state = "Ready"
          /\ previews[other].thumbnail.zoom.value

\* C12: Open(id) for a listed id clears the displayed image, sets the
\* background fade target to visible, the current target to id and the current
\* index to id's position, and issues exactly one original-resolution decode
\* request for id; for an id that is not listed it changes nothing.
C12_OpenTargets ==
    [][\A id \in Ids :
          Open(id) =>
              IF \E k \in 1 .. Len(images) : images[k] = id
              THEN /\ viewer'.image = None
                   /\ viewer'.background_fade_in.value
                   /\ viewer'.current_id = id
                   /\ viewer'.current_index + 1 \in 1 .. Len(images)
                   /\ images[viewer'.current_index + 1] = id
                   /\ IssuesOriginal(id)
                   /\ UNCHANGED <<images, previews, panicked>>
              ELSE ControllerUnchanged]_vars

\* C12's case: the second image was opened while the viewer displayed another
\* image, whose decode had been delivered.
C12_Witness ==
    /\ last.type = "Open"
    /\ last.issued = "Original"
    /\ last.id = 1
    /\ viewer.current_id = 1
    /\ viewer.current_index = 1
    /\ viewer.image = None
    /\ viewer.image_fade_in.value
    /\ origTasks[1] = 1

\* C13: a Close message, and an Escape key press handled while the viewer is
\* open, set the background fade target and the image fade target to hidden,
\* clear the current target and issue no decode request.
C13_CloseHides ==
    [][(Close \/ (KeyPressed("Escape") /\ ViewerIsOpen(viewer))) =>
          /\ ~viewer'.background_fade_in.value
          /\ ~viewer'.image_fade_in.value
          /\ viewer'.current_id = None
          /\ UNCHANGED <<thumbTasks, origTasks>>]_vars

\* C13's case: Escape has just closed a viewer that displayed an image.
C13_Witness ==
    /\ last.type = "Escape"
    /\ viewer.image # None
    /\ ~viewer.background_fade_in.value
    /\ viewer.background_fade_in.wall = 0
    /\ ~viewer.image_fade_in.value
    /\ viewer.image_fade_in.wall = 0
    /\ viewer.current_id = None

\* C14: while the background fade value at the controller's timestamp is 0,
\* a key press (ArrowLeft, ArrowRight, Escape or any other key) leaves the
\* image list, the preview cache and the viewer as they were and issues no
\* decode request.
C14_KeysIgnoredWhenClosed ==
    [][~(Interpolate(viewer.background_fade_in) > Zero) =>
          \A key \in Keys : KeyPressed(key) => ControllerUnchanged]_vars

\* C14's case: ArrowRight was ignored although an image had been opened and a
\* next image exists, the fade being still at 0 at the controller's timestamp.
C14_Witness ==
    /\ last.type = "ArrowRight"
    /\ last.issued = "None"
    /\ viewer.background_fade_in.value
    /\ Interpolate(viewer.background_fade_in) = Zero
    /\ viewer.current_id # None
    /\ viewer.current_index < Len(images) - 1

\* C15: an ArrowLeft or ArrowRight that changes the index leaves the image
\* the viewer displays, and the background fade, as they were.
C15_NavigationKeepsImage ==
    [][((KeyPressed("ArrowLeft") \/ KeyPressed("ArrowRight"))
            /\ viewer'.current_index # viewer.current_index) =>
          /\ viewer'.image = viewer.image
          /\ viewer'.background_fade_in = viewer.background_fade_in]_vars

\* C15's case: ArrowLeft moved the target while the viewer displays the image
\* decoded for the previous target.
C15_Witness ==
    /\ last.type = "ArrowLeft"
    /\ last.issued = "Original"
    /\ viewer.image # None
    /\ viewer.current_index = 0
    /\ viewer.image # viewer.current_id
    /\ viewer.background_fade_in.value

\* C16: a Ready preview's fade-in is animating from its construction; an
\* Animate whose timestamp is at or past the start of the fade-in plus its
\* duration leaves it not animating; and if from some point on nothing but
\* clock ticks and Animate messages occur, then eventually, and for good, no
\* preview track and no viewer track is animating.
C16_AnimationQuiescence ==
    /\ [][\A id \in Ids :
             /\ ThumbnailDownloadedOk(id)
                    => IsAnimating(previews'[id].thumbnail.fade_in)
             /\ (/\ Animate
                 /\ previews[id].state = "Ready"
                 /\ previews[id].thumbnail.fade_in.wall >= QuickTicks)
                    => ~IsAnimating(previews'[id].thumbnail.fade_in)]_vars
    /\ (<>[][Tick \/ Animate]_vars) => <>[](~SubscriptionIsAnimating)

\* C16's case: an Animate found every track at rest, a thumbnail being fully
\* faded in and the viewer displaying an image at full opacity.
C16_Witness ==
    /\ last.type = "Animate"
    /\ ~SubscriptionIsAnimating
    /\ \E id \in Ids :
          /\ previews[id].state = "Ready"
          /\ Interpolate(previews[id].thumbnail.fade_in) = One
    /\ viewer.image # None
    /\ Interpolate(viewer.image_fade_in) = One
    /\ Interpolate(viewer.background_fade_in) = One

\* C17: handling a failed listing, a failed thumbnail decode or a failed
\* full-resolution decode does not abort the controller, leaves the image
\* list, the preview cache and the viewer exactly as they were and issues no
\* request, so that later events are still handled.
C17_ErrorsAreLocal ==
    [][(\/ ImagesListedErr
        \/ \E id \in Ids : ThumbnailDownloadedErr(id)
        \/ \E id \in Ids : ImageDownloadedErr(id)) =>
          /\ UNCHANGED <<images, previews, viewer>>
          /\ ~panicked'
          /\ \A id \in Ids : /\ thumbTasks'[id] <= thumbTasks[id]
                              /\ origTasks'[id] <= origTasks[id]]_vars

\* C17's case: after a failed full-resolution decode and a failed thumbnail
\* decode, a later thumbnail completion for the id that had failed was handled
\* while the viewer still displays an image.
C17_Witness ==
    /\ origFailed
    /\ last.type = "ThumbnailDownloaded"
    /\ last.flag
    /\ last.id \in thumbFailed
    /\ previews[last.id].state = "Ready"
    /\ viewer.image # None
    /\ ~panicked

\* An extension that spells jpg, jpeg, png or gif in any case.
PassesFilter(entry) == entry \in {"jpg", "JPG", "jpeg", "Png", "gif"}

\* C18: for every content of the directory, the image list has exactly one
\* image per entry passing the extension filter (jpg, jpeg, png, gif in any
\* case), in the directory's order, and the k-th image has id k counted from
\* 0; this holds of the list the controller receives and of Image::list.
C18_DenseIds ==
    [][(listTask /\ ~listTask') =>
          \A entries \in Directories :
             ImagesListedOk(entries) =>
                LET passing ==
                        {i \in 1 .. Len(entries) : PassesFilter(entries[i])}
                    Dense(list) ==
                        /\ Len(list) = Cardinality(passing)
                        /\ {list[k].path.entry : k \in 1 .. Len(list)} = passing
                        /\ \A k \in 1 .. Len(list) : list[k].id = k - 1
                        /\ \A j, k \in 1 .. Len(list) :
                              j < k => list[j].path.entry < list[k].path.entry
                IN  /\ Len(images') = Cardinality(passing)
                    /\ \A k \in 1 .. Len(images') : images'[k] = k - 1
                    /\ Dense(ListFromPaths(ListImageFiles(entries)))
                    /\ Dense(ImageList(entries))]_vars

\* C18's case: a listing has delivered as many images as the model allows.
C18_Witness ==
    /\ last.type = "ImagesListed"
    /\ last.flag
    /\ Len(images) = MaxImages
    /\ \A k \in 1 .. Len(images) : images[k] = k - 1

\* C19: whatever the width and height of the source image, the pixel buffer a
\* decode requested with Thumbnail{360,360} yields, and so every Ready
\* preview, is at most 360 wide and at most 360 high.
C19_ThumbnailWithinBounds ==
    \A id \in Ids :
        previews[id].state = "Ready" =>
            /\ previews[id].thumbnail.handle.width <= 360
            /\ previews[id].thumbnail.handle.height <= 360

\* C20: once the background fade target is hidden (a Close has been handled),
\* it stays hidden and no image is installed until an Open is handled: no
\* decode completion and no key press in between reopens the viewer or changes
\* the image it holds.
C20_ClosedUntilOpen ==
    [][(~viewer.background_fade_in.value /\ last'.type # "Open") =>
          /\ ~viewer'.background_fade_in.value
          /\ viewer'.image = viewer.image]_vars

\* C21: in every reachable state update has not panicked, and whenever the
\* viewer is open the image list is not empty and the current index is set
\* and less than the length of the list, so that the unwrap, len - 1 and the
\* indexing at index - 1 and index + 1 of the arrow-key arms cannot fail.
C21_KeysNeverPanic ==
    /\ ~panicked
    /\ ViewerIsOpen(viewer) =>
          /\ Len(images) > 0
          /\ viewer.current_index # None
          /\ viewer.current_index >= 0
          /\ viewer.current_index < Len(images)

\* C21's case: ArrowLeft moved the index during the closing fade, the viewer
\* being still open at the controller's timestamp and its target cleared
\* by the Close.
C21_Witness ==
    /\ last.type = "ArrowLeft"
    /\ last.issued = "Original"
    /\ ViewerIsOpen(viewer)
    /\ ~viewer.background_fade_in.value
    /\ viewer.current_index = 0
    /\ ~panicked

\* C22: the frame subscription is active exactly when, at the controller's
\* stored timestamp, some Ready preview's fade-in or zoom is in transition or
\* the viewer's background fade or image fade is; an entry that is not Ready
\* never makes it active.
C22_FramesIffAnimating ==
    ("frames" \in Subscription) <=>
        \/ \E id \in Ids :
              /\ previews[id].state = "Ready"
              /\ \/ previews[id].thumbnail.fade_in.seen < QuickTicks
                 \/ previews[id].thumbnail.zoom.seen < QuickTicks
        \/ viewer.background_fade_in.seen < QuickTicks
        \/ viewer.image_fade_in.seen < QuickTicks

\* C22's case: frames are subscribed to because of the viewer's image fade
\* alone, the background fade and every thumbnail being at rest.
C22_Witness ==
    /\ "frames" \in Subscription
    /\ viewer.image_fade_in.seen < QuickTicks
    /\ viewer.background_fade_in.seen >= QuickTicks
    /\ \E id \in Ids : previews[id].state = "Ready"
    /\ \A id \in Ids :
          previews[id].state = "Ready" =>
              previews[id].thumbnail.fade_in.seen >= QuickTicks

\* C23: whatever is handled, an id that has a cache entry still has one
\* afterwards, and an entry that is Ready is still Ready afterwards.
C23_PreviewLifecycleMonotone ==
    [][\A id \in Ids :
          /\ previews[id].state # "Absent" => previews'[id].state # "Absent"
          /\ previews[id].state = "Ready" => previews'[id].state = "Ready"]_vars

\* C23's case: a thumbnail decode failed for an id whose entry was Ready (a
\* second request for it), and the entry is still Ready.
C23_Witness ==
    /\ last.type = "ThumbnailDownloaded"
    /\ ~last.flag
    /\ previews[last.id].state = "Ready"

\* C24: the card of a listed image emits Open(id) only when the entry of id
\* is Ready and ImagePoppedIn(id) only when id has no entry, and a card whose
\* entry is Loading emits neither; so every Open and every ImagePoppedIn a
\* card delivers finds the entry Ready, respectively missing.
C24_CardMessages ==
    /\ [](\A id \in Cards :
            /\ Card(id, previews[id]).on_press # None
                   => previews[id].state = "Ready"
            /\ Card(id, previews[id]).on_show # None
                   => previews[id].state = "Absent"
            /\ Card(id, Loading).on_press = None
            /\ Card(id, Loading).on_show = None)
    /\ [][\A id \in Ids :
             /\ CardPressed(id) => previews[id].state = "Ready"
             /\ CardShown(id) => previews[id].state = "Absent"]_vars

\* C24's case: the card of a Ready entry has opened its image while another
\* card, whose thumbnail is being decoded, has no entry and would emit
\* ImagePoppedIn again.
C24_Witness ==
    /\ last.type = "Open"
    /\ last.issued = "Original"
    /\ previews[last.id].state = "Ready"
    /\ \E other \in Cards :
          /\ previews[other].state = "Absent"
          /\ thumbTasks[other] > 0
          /\ Card(other, previews[other]).on_show = other

====
